---- MODULE Spec2Model ----
(***************************************************************************)
(* A model of the two scripts of pokevendmachines:                         *)
(*   lotlan.py  - loads a JSON list of location records, geocodes every    *)
(*                record against Nominatim with a retry loop, saves the    *)
(*                result and prints a summary;                             *)
(*   scrape.py  - extracts location records from an HTML page and loads    *)
(*                an existing JSON file.                                   *)
(* A run starts one of the entry points (variable program).  JSON objects  *)
(* are modelled with their identity: the nested `coordinates` dict of a    *)
(* record is an object of the heap `coords`, the record holds its index.   *)
(***************************************************************************)
EXTENDS Integers, Sequences, FiniteSets, TLC

VARIABLES
    program,            \* the entry point this run executes
    pc,                 \* position of the control flow
    file,               \* the input JSON file on disk
    load_result,        \* what the load operation gave its caller
    pokemon_locations,  \* lotlan.py: the loaded list (location_data)
    coords,             \* heap of the nested coordinates dicts
    results,            \* add_coordinates_nominatim: the list being built
    i,                  \* enumerate(location_data, 1) index
    attempt,            \* geocode_single_location: the loop variable
    location_json,      \* geocode_single_location: the copy being geocoded
    history,            \* requests and sleeps of the record being geocoded
    requests,           \* number of outbound requests per record
    outcome,            \* where geocode_single_location ended per record
    delays,             \* the inter-record sleeps taken so far, in seconds
    output_file,        \* lotlan.py: the file save_results writes
    console,            \* the category of the last top-level message
    html_content,       \* scrape.py: the argument of the extractor
    scrape_result       \* scrape.py: what the extractor returned

vars == <<program, pc, file, load_result, pokemon_locations, coords, results,
          i, attempt, location_json, history, requests, outcome,
          delays, output_file, console, html_content, scrape_result>>

geoVars == <<pokemon_locations, coords, results, i, attempt, location_json,
             history, requests, outcome, delays, output_file>>

scrapeVars == <<html_content, scrape_result>>

----------------------------------------------------------------------------
(* Bounds of the model *)

MaxRecords == 2     \* records in the input file
MaxMatches == 1     \* matches in one lookup response
MaxRows == 3        \* rows of the table of a page
MaxLines == 2       \* lines of the text of a page without table

----------------------------------------------------------------------------
(* Python values *)

None == [tag |-> "None", val |-> 0]
Float(x) == [tag |-> "float", val |-> x]

\* local constants of geocode_single_location and the default of `delay`
max_retries == 3
retry_delay == 2
delay == 1

Missing == "<missing>"

\* float(s) for the texts a match can carry, in hundredths of a degree;
\* every other text (and a missing key) makes line 46/47 raise
IsNumeric(s) == s \in {"39.78", "-89.65"}

float(s) ==
    CASE s = "39.78"  -> Float(3978)
      [] s = "-89.65" -> Float(-8965)

----------------------------------------------------------------------------
(* Inputs *)

AbsentCoordinates == [lat |-> None, lng |-> None]
StoredCoordinates == [lat |-> Float(3400), lng |-> Float(-11800)]

\* the objects an input file holds
FileRecords ==
    { [name |-> "Target", machine_id |-> "Q1", address |-> "1 Main St, Springfield, IL",
       coordinates |-> c] : c \in {AbsentCoordinates, StoredCoordinates} }
    \cup
    { [name |-> "Kroger", machine_id |-> "Q2", address |-> "2 Elm St, Dayton, OH",
       coordinates |-> AbsentCoordinates] }

SeqsUpTo(S, n) == UNION { [1..k -> S] : k \in 0..n }

Files ==
    { [kind |-> "missing", data |-> <<>>], [kind |-> "invalid", data |-> <<>>] }
    \cup { [kind |-> "json", data |-> d] : d \in SeqsUpTo(FileRecords, MaxRecords) }

\* the first elements of the list Nominatim answers with
Matches ==
    { [lat |-> "39.78", lon |-> "-89.65"],
      [lat |-> "abc",   lon |-> "-89.65"],
      [lat |-> "39.78", lon |-> Missing] }

\* what one call of requests.get(...) can produce: it raises a
\* RequestException (exc), or returns a response with a status code and a
\* body that parses as JSON (json_ok, data) or does not
Responses ==
    { [exc |-> TRUE, status |-> 0, json_ok |-> FALSE, data |-> <<>>] }
    \cup { [exc |-> FALSE, status |-> s, json_ok |-> FALSE, data |-> <<>>] : s \in {429, 500, 200} }
    \cup { [exc |-> FALSE, status |-> 200, json_ok |-> TRUE, data |-> d] :
             d \in SeqsUpTo(Matches, MaxMatches) }

NoRecord == [obj |-> <<"none", 0>>, name |-> "", machine_id |-> "", address |-> "",
             coordinates |-> 0]

\* entries of history: a request with the kind of its answer and the first
\* match of the answer, or a time.sleep inside geocode_single_location
NoMatch == [lat |-> Missing, lon |-> Missing]
Request(kind, data) ==
    [ev |-> "request", resp |-> kind, secs |-> 0,
     first |-> IF data = <<>> THEN NoMatch ELSE data[1]]
Sleep(n) == [ev |-> "sleep", resp |-> "", secs |-> n, first |-> NoMatch]

----------------------------------------------------------------------------
(* lotlan.py *)

\* faulty variant: every failure of the load is raised as the same error
load_from_file_one_error(f) ==
    IF f.kind \in {"missing", "invalid"}
    THEN [kind |-> "raise", exc |-> "JSONDecodeError", none |-> FALSE, value |-> <<>>,
          printed |-> ""]
    ELSE [kind |-> "return", exc |-> "", none |-> FALSE, value |-> f.data,
          printed |-> ""]

\* load_from_file: open() raises FileNotFoundError, json.load raises
\* JSONDecodeError, otherwise the parsed list is returned
load_from_file(f) ==
    CASE f.kind = "missing" ->
           [kind |-> "raise", exc |-> "FileNotFoundError", none |-> FALSE, value |-> <<>>,
            printed |-> ""]
      [] f.kind = "invalid" ->
           [kind |-> "raise", exc |-> "JSONDecodeError", none |-> FALSE, value |-> <<>>,
            printed |-> ""]
      [] OTHER ->
           [kind |-> "return", exc |-> "", none |-> FALSE, value |-> f.data,
            printed |-> ""]

\* faulty variant: the record itself is handed to geocode_single_location
no_copy(location) == location

\* location.copy(): a shallow copy, a new dict (obj is the identity of the
\* object) with the same items; the nested dict is shared
copy(location) == [location EXCEPT !.obj = <<"copy", @[2]>>]

total == Len(pokemon_locations)

\* __main__: load the file and enter add_coordinates_nominatim
MainLoad ==
    /\ program = "lotlan" /\ pc = "main"
    /\ load_result' = load_from_file(file)
    /\ IF load_result'.kind = "raise"
       THEN /\ console' = IF load_result'.exc = "FileNotFoundError"
                          THEN "Error: Could not find" ELSE "Error"
            /\ pc' = "done"
            /\ UNCHANGED geoVars
       ELSE LET data == load_result'.value
                n == Len(data) IN
            /\ pokemon_locations' =
                 [k \in 1..n |-> [obj |-> <<"loaded", k>>, name |-> data[k].name,
                                  machine_id |-> data[k].machine_id,
                                  address |-> data[k].address, coordinates |-> k]]
            /\ coords' = [k \in 1..n |-> data[k].coordinates]
            /\ results' = <<>>
            /\ requests' = [k \in 1..n |-> 0]
            /\ outcome' = [k \in 1..n |-> "pending"]
            /\ IF n = 0
               THEN pc' = "returned" /\ i' = 0 /\ location_json' = NoRecord
               ELSE pc' = "geocode" /\ i' = 1
                    /\ location_json' = copy(pokemon_locations'[1])
            /\ attempt' = 0
            /\ history' = <<>>
            /\ UNCHANGED <<delays, output_file, console>>
    /\ UNCHANGED <<program, file, html_content, scrape_result>>

\* faulty variant: the backoff does not grow with the attempt
backoff_fixed(a) == retry_delay

\* faulty variant: the backoff doubles with every attempt
backoff_doubling(a) == retry_delay * (2 ^ a)

\* line 59: the rate-limit backoff of attempt a
backoff(a) == retry_delay * (a + 1)

\* lines 46-47: the coordinates taken from a response's list of matches
found_coordinates(data) == [lat |-> float(data[1].lat), lng |-> float(data[1].lon)]

\* faulty variant: a failure leaves the coordinates as they were
kept_coordinates == coords[location_json.coordinates]

\* lines 52-53 and 73-74: the sentinel written on failure
failed_coordinates == [lat |-> None, lng |-> None]

\* how the handlers of lines 42-69 see a response
Kind(r) ==
    CASE r.exc                                   -> "RequestException"
      [] ~r.exc /\ r.status = 429                -> "429"
      [] ~r.exc /\ r.status = 200 /\ ~r.json_ok  -> "200 invalid json"
      [] ~r.exc /\ r.status = 200 /\ r.json_ok /\ r.data # <<>> -> "200 match"
      [] ~r.exc /\ r.status = 200 /\ r.json_ok /\ r.data = <<>> -> "200 empty"
      [] OTHER                                   -> "HTTP error"

Geocoding == program = "lotlan" /\ pc = "geocode"

\* line 40: one outbound request of the current record, answered by r
Issue(r) ==
    /\ requests' = [requests EXCEPT ![i] = @ + 1]

\* `return location_json` (lines 49, 54, 75) and the rest of the loop body
\* of add_coordinates_nominatim (lines 87-93)
ReturnRecord(oc) ==
    /\ outcome' = [outcome EXCEPT ![i] = oc]
    /\ results' = Append(results, location_json)
    /\ pc' = IF i < total THEN "delay" ELSE "returned"
    /\ UNCHANGED <<attempt, console>>

\* an exception no handler of lotlan.py's functions catches: it leaves
\* geocode_single_location and add_coordinates_nominatim and is reported by
\* `except Exception` of __main__ (lines 161-162)
Propagate ==
    /\ outcome' = [outcome EXCEPT ![i] = "raised"]
    /\ pc' = "done"
    /\ console' = "Error"
    /\ UNCHANGED <<results, attempt>>

\* the end of one pass of `for attempt in range(max_retries)`: the next
\* pass, or lines 71-75 once the range is exhausted
NextAttempt ==
    IF attempt + 1 < max_retries
    THEN /\ attempt' = attempt + 1
         /\ UNCHANGED <<pc, coords, results, outcome, console>>
    ELSE /\ coords' = [coords EXCEPT ![location_json.coordinates] = failed_coordinates]
         /\ ReturnRecord("failed")

\* faulty variant: the success branch forgets its return and the loop goes on
Attempt200FoundNoReturn ==
    /\ Geocoding
    /\ \E r \in Responses :
         /\ Kind(r) = "200 match"
         /\ IsNumeric(r.data[1].lat) /\ IsNumeric(r.data[1].lon)
         /\ Issue(r)
         /\ history' = Append(history, Request(Kind(r), r.data))
         /\ IF attempt + 1 < max_retries
            THEN /\ coords' = [coords EXCEPT ![location_json.coordinates] = found_coordinates(r.data)]
                 /\ attempt' = attempt + 1
                 /\ UNCHANGED <<pc, results, outcome, console>>
            ELSE /\ coords' = [coords EXCEPT ![location_json.coordinates] = failed_coordinates]
                 /\ ReturnRecord("failed")
    /\ UNCHANGED <<program, file, load_result, pokemon_locations, i, location_json,
                   delays, output_file, html_content, scrape_result>>

\* lines 42-49: status 200, a non-empty list whose first element converts
Attempt200Found ==
    /\ Geocoding
    /\ \E r \in Responses :
         /\ Kind(r) = "200 match"
         /\ IsNumeric(r.data[1].lat) /\ IsNumeric(r.data[1].lon)
         /\ Issue(r)
         /\ history' = Append(history, Request(Kind(r), r.data))
         /\ coords' = [coords EXCEPT ![location_json.coordinates] = found_coordinates(r.data)]
         /\ ReturnRecord("geocoded")
    /\ UNCHANGED <<program, file, load_result, pokemon_locations, i, location_json,
                   delays, output_file, html_content, scrape_result>>

\* line 46 raises (KeyError or ValueError): nothing has been assigned
Attempt200BadLat ==
    /\ Geocoding
    /\ \E r \in Responses :
         /\ Kind(r) = "200 match"
         /\ ~IsNumeric(r.data[1].lat)
         /\ Issue(r)
         /\ history' = Append(history, Request(Kind(r), r.data))
         /\ UNCHANGED coords
         /\ Propagate
    /\ UNCHANGED <<program, file, load_result, pokemon_locations, i, location_json,
                   delays, output_file, html_content, scrape_result>>

\* line 46 assigns lat, then line 47 raises (KeyError or ValueError)
Attempt200BadLon ==
    /\ Geocoding
    /\ \E r \in Responses :
         /\ Kind(r) = "200 match"
         /\ IsNumeric(r.data[1].lat) /\ ~IsNumeric(r.data[1].lon)
         /\ Issue(r)
         /\ history' = Append(history, Request(Kind(r), r.data))
         /\ coords' = [coords EXCEPT ![location_json.coordinates].lat = float(r.data[1].lat)]
         /\ Propagate
    /\ UNCHANGED <<program, file, load_result, pokemon_locations, i, location_json,
                   delays, output_file, html_content, scrape_result>>

\* faulty variant: zero matches are retried like any other failure
Attempt200NoResultsRetry ==
    /\ Geocoding
    /\ \E r \in Responses :
         /\ Kind(r) = "200 empty"
         /\ Issue(r)
         /\ history' = Append(history, Request(Kind(r), r.data))
         /\ NextAttempt
    /\ UNCHANGED <<program, file, load_result, pokemon_locations, i, location_json,
                   delays, output_file, html_content, scrape_result>>

\* lines 50-54: status 200 and an empty list
Attempt200NoResults ==
    /\ Geocoding
    /\ \E r \in Responses :
         /\ Kind(r) = "200 empty"
         /\ Issue(r)
         /\ history' = Append(history, Request(Kind(r), r.data))
         /\ coords' = [coords EXCEPT ![location_json.coordinates] = failed_coordinates]
         /\ ReturnRecord("no_results")
    /\ UNCHANGED <<program, file, load_result, pokemon_locations, i, location_json,
                   delays, output_file, html_content, scrape_result>>

\* lines 56-60: status 429, sleep the backoff (on the last attempt too)
Attempt429 ==
    /\ Geocoding
    /\ \E r \in Responses :
         /\ Kind(r) = "429"
         /\ Issue(r)
         /\ history' = history \o <<Request(Kind(r), r.data), Sleep(backoff(attempt))>>
         /\ NextAttempt
    /\ UNCHANGED <<program, file, load_result, pokemon_locations, i, location_json,
                   delays, output_file, html_content, scrape_result>>

\* faulty variant: another status is handled like a rate limit
AttemptHTTPErrorBackoff ==
    /\ Geocoding
    /\ \E r \in Responses :
         /\ Kind(r) = "HTTP error"
         /\ Issue(r)
         /\ history' = history \o <<Request(Kind(r), r.data), Sleep(backoff(attempt))>>
         /\ NextAttempt
    /\ UNCHANGED <<program, file, load_result, pokemon_locations, i, location_json,
                   delays, output_file, html_content, scrape_result>>

\* lines 62-63: any other status, the loop falls through to the next pass
AttemptHTTPError ==
    /\ Geocoding
    /\ \E r \in Responses :
         /\ Kind(r) = "HTTP error"
         /\ Issue(r)
         /\ history' = Append(history, Request(Kind(r), r.data))
         /\ NextAttempt
    /\ UNCHANGED <<program, file, load_result, pokemon_locations, i, location_json,
                   delays, output_file, html_content, scrape_result>>

\* faulty variant: the handler sleeps the rate-limit backoff, on every pass
HandleRequestExceptionBackoff(r) ==
    /\ history' = history \o <<Request(Kind(r), r.data), Sleep(backoff(attempt))>>
    /\ NextAttempt

\* lines 65-69: the handler of requests.exceptions.RequestException
HandleRequestException(r) ==
    /\ history' = IF attempt < max_retries - 1
                  THEN history \o <<Request(Kind(r), r.data), Sleep(retry_delay)>>
                  ELSE Append(history, Request(Kind(r), r.data))
    /\ NextAttempt

\* line 40 raises: timeout, connection failure
AttemptRequestException ==
    /\ Geocoding
    /\ \E r \in Responses :
         /\ Kind(r) = "RequestException"
         /\ Issue(r)
         /\ HandleRequestException(r)
    /\ UNCHANGED <<program, file, load_result, pokemon_locations, i, location_json,
                   delays, output_file, html_content, scrape_result>>

\* line 43 raises on a body that is not JSON.  The class of that error is
\* the library's: requests.exceptions.JSONDecodeError, a RequestException,
\* from requests 2.27 on (caught at line 65); a plain ValueError before
\* (caught nowhere in the function).  Both builds are possible.
Attempt200InvalidJSON ==
    /\ Geocoding
    /\ \E r \in Responses, caught \in BOOLEAN :
         /\ Kind(r) = "200 invalid json"
         /\ Issue(r)
         /\ IF caught
            THEN HandleRequestException(r)
            ELSE /\ history' = Append(history, Request(Kind(r), r.data))
                 /\ UNCHANGED coords
                 /\ Propagate
    /\ UNCHANGED <<program, file, load_result, pokemon_locations, i, location_json,
                   delays, output_file, html_content, scrape_result>>

\* faulty variant: the inter-record sleep is skipped when the record has
\* already slept in its retry loop
DelayUnlessSlept ==
    /\ program = "lotlan" /\ pc = "delay"
    /\ delays' = IF \E j \in 1..Len(history) : history[j].ev = "sleep"
                 THEN delays ELSE Append(delays, delay)
    /\ i' = i + 1
    /\ location_json' = copy(pokemon_locations[i + 1])
    /\ attempt' = 0
    /\ history' = <<>>
    /\ pc' = "geocode"
    /\ UNCHANGED <<program, file, load_result, pokemon_locations, coords, results,
                   requests, outcome, output_file, console,
                   html_content, scrape_result>>

\* lines 90-91 and the next pass of the loop of line 84
Delay ==
    /\ program = "lotlan" /\ pc = "delay"
    /\ delays' = Append(delays, delay)
    /\ i' = i + 1
    /\ location_json' = copy(pokemon_locations[i + 1])
    /\ attempt' = 0
    /\ history' = <<>>
    /\ pc' = "geocode"
    /\ UNCHANGED <<program, file, load_result, pokemon_locations, coords, results,
                   requests, outcome, output_file, console,
                   html_content, scrape_result>>

\* json.dump of the list: every record with the values of its coordinates
dump(data) ==
    [k \in 1..Len(data) |-> [name |-> data[k].name, machine_id |-> data[k].machine_id,
                             address |-> data[k].address,
                             coordinates |-> coords[data[k].coordinates]]]

\* faulty variant: what has been geocoded is saved when the batch aborts too
MainSaveOnErrorToo ==
    /\ program = "lotlan"
    /\ IF pc = "returned"
       THEN pc' = "summary"
       ELSE /\ pc = "done" /\ load_result.kind = "return" /\ console = "Error"
            /\ ~output_file.written
            /\ pc' = "done"
    /\ output_file' = [written |-> TRUE, data |-> dump(results)]
    /\ UNCHANGED <<program, file, load_result, pokemon_locations, coords, results, i,
                   attempt, location_json, history, requests, outcome,
                   delays, console, html_content, scrape_result>>

\* lines 123-126: add_coordinates_nominatim has returned, save_results
MainSave ==
    /\ program = "lotlan" /\ pc = "returned"
    /\ output_file' = [written |-> TRUE, data |-> dump(results)]
    /\ pc' = "summary"
    /\ UNCHANGED <<program, file, load_result, pokemon_locations, coords, results, i,
                   attempt, location_json, history, requests, outcome,
                   delays, console, html_content, scrape_result>>

\* lines 129-156: the summary only reads geocoded_locations
MainSummary ==
    /\ program = "lotlan" /\ pc = "summary"
    /\ console' = "Geocoding Summary"
    /\ pc' = "done"
    /\ UNCHANGED <<program, file, load_result, pokemon_locations, coords, results, i,
                   attempt, location_json, history, requests, outcome,
                   delays, output_file, html_content, scrape_result>>

----------------------------------------------------------------------------
(* scrape.py *)

\* Text is a sequence of one-character strings
Whitespace == {" ", "\n", "\t"}
UpperCase == {"A", "B", "C", "D", "E", "F", "G", "H", "I", "J", "K", "L", "M", "N", "O", "P", "Q", "R", "S", "T", "U", "V", "W", "X", "Y", "Z"}
LowerCase == {"a", "b", "c", "d", "e", "f", "g", "h", "i", "j", "k", "l", "m", "n", "o", "p", "q", "r", "s", "t", "u", "v", "w", "x", "y", "z"}
Digits == {"0", "1", "2", "3", "4", "5", "6", "7", "8", "9"}

Min(S) == CHOOSE k \in S : \A j \in S : k <= j
Max(S) == CHOOSE k \in S : \A j \in S : k >= j

\* str.strip(): drop the leading and the trailing whitespace
strip(t) ==
    LET keep == { k \in 1..Len(t) : t[k] \notin Whitespace } IN
    IF keep = {} THEN <<>> ELSE SubSeq(t, Min(keep), Max(keep))

\* str.lower() of one character
LowerChar(c) ==
    CASE c = "A" -> "a"
      [] c = "B" -> "b"
      [] c = "C" -> "c"
      [] c = "D" -> "d"
      [] c = "E" -> "e"
      [] c = "F" -> "f"
      [] c = "G" -> "g"
      [] c = "H" -> "h"
      [] c = "I" -> "i"
      [] c = "J" -> "j"
      [] c = "K" -> "k"
      [] c = "L" -> "l"
      [] c = "M" -> "m"
      [] c = "N" -> "n"
      [] c = "O" -> "o"
      [] c = "P" -> "p"
      [] c = "Q" -> "q"
      [] c = "R" -> "r"
      [] c = "S" -> "s"
      [] c = "T" -> "t"
      [] c = "U" -> "u"
      [] c = "V" -> "v"
      [] c = "W" -> "w"
      [] c = "X" -> "x"
      [] c = "Y" -> "y"
      [] c = "Z" -> "z"
      [] OTHER -> c

lower(t) == [k \in 1..Len(t) |-> LowerChar(t[k])]

\* the record both parsers build (lines 39-47 and 84-92)
location_data(retailer, machine_id, address, city_state) ==
    [name |-> retailer, machine_id |-> machine_id,
     address |-> address \o <<",", " ">> \o city_state,
     coordinates |-> [lat |-> None, lng |-> None]]

\* row.find_all('td'): the td cells of a row, in document order
find_all_td(row) == SelectSeq(row, LAMBDA cell : cell.tag = "td")

\* cell.get_text(strip=True)
get_text(cell) == strip(cell.text)

\* faulty variant: the header row is not skipped
AllRows(rows) == rows

\* table.find_all('tr')[1:]
Tail1(rows) == IF rows = <<>> THEN <<>> ELSE Tail(rows)

\* lines 27-49: the loop over the rows, from row k on
RECURSIVE table_records(_, _)
table_records(rows, k) ==
    IF k > Len(rows) THEN <<>>
    ELSE LET cols == find_all_td(rows[k]) IN
         (IF Len(cols) >= 4
          THEN <<location_data(get_text(cols[1]), get_text(cols[2]),
                               get_text(cols[3]), get_text(cols[4]))>>
          ELSE <<>>)
         \o table_records(rows, k + 1)

\* the end of the run of characters of S that starts at p
RunEnd(t, p, S) == Min({ k \in p..(Len(t) + 1) : k = Len(t) + 1 \/ t[k] \notin S })

\* the position of the next "|" from p on, Len(t)+1 when there is none
NextPipe(t, p) == Min({ k \in p..(Len(t) + 1) : k = Len(t) + 1 \/ t[k] = "|" })

IsPipe(t, p) == p <= Len(t) /\ t[p] = "|"

\* one match of the pattern of line 62 starting exactly at p:
\*   ([A-Za-z\s&]+)\s*\|\s*([Q]\d+)\s*\|\s*([^|]+)\s*\|\s*([^|]+)
\* The greedy runs are the only way to match: every run must be followed by
\* a character outside its class.  Groups 3 and 4 are given stripped, as
\* lines 73-74 use them.
MatchAt(t, p) ==
    LET e1 == RunEnd(t, p, UpperCase \cup LowerCase \cup Whitespace \cup {"&"})
        q  == RunEnd(t, e1 + 1, Whitespace)
        d  == RunEnd(t, q + 1, Digits)
        e2 == RunEnd(t, d, Whitespace)
        e3 == NextPipe(t, e2 + 1)
        e4 == NextPipe(t, e3 + 1)
        ok == /\ e1 > p /\ IsPipe(t, e1)
              /\ q <= Len(t) /\ t[q] = "Q" /\ d > q + 1
              /\ IsPipe(t, e2)
              /\ e3 > e2 + 1 /\ IsPipe(t, e3)
              /\ e4 > e3 + 1
    IN  IF ok
        THEN [ok |-> TRUE, stop |-> e4,
              groups |-> <<SubSeq(t, p, e1 - 1), SubSeq(t, q, d - 1),
                           strip(SubSeq(t, e2 + 1, e3 - 1)),
                           strip(SubSeq(t, e3 + 1, e4 - 1))>>]
        ELSE [ok |-> FALSE, stop |-> p + 1, groups |-> <<>>]

\* re.findall(pattern, text): the non-overlapping matches, leftmost first
RECURSIVE findall(_, _)
findall(t, p) ==
    IF p > Len(t) THEN <<>>
    ELSE LET m == MatchAt(t, p) IN
         (IF m.ok THEN <<m.groups>> ELSE <<>>) \o findall(t, m.stop)

\* lines 67-94: the loop over the matches, from match k on
RECURSIVE match_records(_, _)
match_records(matches, k) ==
    IF k > Len(matches) THEN <<>>
    ELSE LET retailer == strip(matches[k][1])
             machine_id == strip(matches[k][2])
         IN  (IF lower(retailer) \in {<<"r","e","t","a","i","l","e","r">>, <<"s","t","o","r","e">>}
                 \/ machine_id[1] # "Q"
              THEN <<>>
              ELSE <<location_data(retailer, machine_id, matches[k][3], matches[k][4])>>)
             \o match_records(matches, k + 1)

parse_pipe_separated_data(text) == match_records(findall(text, 1), 1)

\* what a function hands its caller: a list, or None
List(v) == [none |-> FALSE, value |-> v]
NoneResult == [none |-> TRUE, value |-> <<>>]

\* faulty variant: the handler returns an empty list
scrape_returning_empty(html) ==
    CASE html.kind = "raises" -> List(<<>>)
      [] html.kind = "text"   -> List(parse_pipe_separated_data(html.text))
      [] OTHER                -> List(table_records(Tail1(html.rows), 1))

\* scrape_pokemon_vending_machines: BeautifulSoup(...) raises and the
\* handler of lines 53-55 returns None; no table, the fallback parser; else
\* the rows of the first table but the first
scrape_pokemon_vending_machines(html) ==
    CASE html.kind = "raises" -> NoneResult
      [] html.kind = "text"   -> List(parse_pipe_separated_data(html.text))
      [] OTHER                -> List(table_records(Tail1(html.rows), 1))

\* load_existing_data: both handlers (lines 115-120) print and return None
load_existing_data(f) ==
    CASE f.kind = "missing" ->
           [kind |-> "return", exc |-> "", none |-> TRUE, value |-> <<>>,
            printed |-> "file not found"]
      [] f.kind = "invalid" ->
           [kind |-> "return", exc |-> "", none |-> TRUE, value |-> <<>>,
            printed |-> "Error loading"]
      [] OTHER ->
           [kind |-> "return", exc |-> "", none |-> FALSE, value |-> f.data,
            printed |-> "Loaded"]

\* the cells and rows of the pages
Td(t) == [tag |-> "td", text |-> t]
Th(t) == [tag |-> "th", text |-> t]

Rows ==
    { <<Th(<<"R", "e", "t", "a", "i", "l", "e", "r">>), Th(<<"I", "D">>), Th(<<"A", "d", "d", "r", "e", "s", "s">>), Th(<<"C", "i", "t", "y">>)>>,
      <<Td(<<"R", "e", "t", "a", "i", "l", "e", "r">>), Td(<<"I", "D">>), Td(<<"A", "d", "d", "r", "e", "s", "s">>), Td(<<"C", "i", "t", "y">>)>>,
      <<Td(<<" ", "T", "a", "r", "g", "e", "t">>), Td(<<"Q", "1">>), Td(<<"1", " ", "M", "a", "i", "n", " ", "S", "t", " ">>), Td(<<"S", "p", "r", "i", "n", "g", "f", "i", "e", "l", "d", ",", " ", "I", "L">>)>>,
      <<Td(<<"K", "r", "o", "g", "e", "r">>), Td(<<"Q", "2", " ">>), Td(<<"2", " ", "E", "l", "m", " ", "S", "t">>), Td(<<" ", "D", "a", "y", "t", "o", "n", ",", " ", "O", "H">>), Td(<<"m", "a", "p">>)>>,
      <<Td(<<" ", "T", "a", "r", "g", "e", "t">>), Td(<<"Q", "1">>), Td(<<"1", " ", "M", "a", "i", "n", " ", "S", "t", " ">>)>>,
      <<Th(<<"7">>), Td(<<"H", "&", "M">>), Td(<<"Q", "1", "2">>), Td(<<"3", " ", "O", "a", "k">>), Td(<<"R", "e", "n", "o">>)>> }

Lines ==
    { <<"T", "a", "r", "g", "e", "t", " ", "|", " ", "Q", "1", " ", "|", " ", "1", " ", "M", "a", "i", "n", " ", "S", "t", " ", "|", " ", "S", "p", "r", "i", "n", "g", "f", "i", "e", "l", "d", ",", " ", "I", "L">>,
      <<"R", "e", "t", "a", "i", "l", "e", "r", "|", "Q", "0", "|", "A", "d", "d", "r", "e", "s", "s", "|", "C", "i", "t", "y">>,
      <<"K", "r", "o", "g", "e", "r", "|", "7", "|", "2", " ", "E", "l", "m", " ", "S", "t", "|", "D", "a", "y", "t", "o", "n", ",", " ", "O", "H">>,
      <<"H", "&", "M", "|", "Q", "1", "2", "|", "|", "R", "e", "n", "o", ",", " ", "N", "V">> }

RECURSIVE join(_)
join(ls) == IF ls = <<>> THEN <<>>
            ELSE IF Len(ls) = 1 THEN ls[1]
            ELSE ls[1] \o <<"\n">> \o join(Tail(ls))

Pages ==
    { [kind |-> "raises", rows |-> <<>>, text |-> <<>>] }
    \cup { [kind |-> "table", rows |-> r, text |-> <<>>] : r \in SeqsUpTo(Rows, MaxRows) }
    \cup { [kind |-> "text", rows |-> <<>>, text |-> join(ls)] : ls \in SeqsUpTo(Lines, MaxLines) }

NoPage == [kind |-> "none", rows |-> <<>>, text |-> <<>>]
NoFile == [kind |-> "none", data |-> <<>>]

\* a call of the extractor
Scrape ==
    /\ program = "scrape" /\ pc = "main"
    /\ scrape_result' = scrape_pokemon_vending_machines(html_content)
    /\ pc' = "done"
    /\ UNCHANGED <<program, file, load_result, geoVars, console, html_content>>

\* __main__ of scrape.py up to the test of line 181 (and lines 227-228);
\* the interactive choice of an operation that follows is not modelled
ScrapeMainLoad ==
    /\ program = "scrape_main" /\ pc = "main"
    /\ load_result' = load_existing_data(file)
    /\ IF ~load_result'.none /\ load_result'.value # <<>>
       THEN pc' = "process" /\ console' = "Processing"
       ELSE pc' = "done" /\ console' = "Failed to load data"
    /\ UNCHANGED <<program, file, geoVars, html_content, scrape_result>>

----------------------------------------------------------------------------

Init ==
    /\ program \in {"lotlan", "scrape_main", "scrape"}
    /\ pc = "main"
    /\ file \in (IF program = "scrape" THEN {NoFile} ELSE Files)
    /\ load_result = [kind |-> "none", exc |-> "", none |-> FALSE, value |-> <<>>,
                      printed |-> ""]
    /\ pokemon_locations = <<>>
    /\ coords = <<>>
    /\ results = <<>>
    /\ i = 0
    /\ attempt = 0
    /\ location_json = NoRecord
    /\ history = <<>>
    /\ requests = <<>>
    /\ outcome = <<>>
    /\ delays = <<>>
    /\ output_file = [written |-> FALSE, data |-> <<>>]
    /\ console = ""
    /\ html_content \in (IF program = "scrape" THEN Pages ELSE {NoPage})
    /\ scrape_result = NoneResult

Next ==
    \/ MainLoad
    \/ Attempt200Found
    \/ Attempt200BadLat
    \/ Attempt200BadLon
    \/ Attempt200NoResults
    \/ Attempt200InvalidJSON
    \/ Attempt429
    \/ AttemptHTTPError
    \/ AttemptRequestException
    \/ Delay
    \/ MainSave
    \/ MainSummary
    \/ Scrape
    \/ ScrapeMainLoad

Spec == Init /\ [][Next]_vars

----------------------------------------------------------------------------
(* Properties of the geocoder *)

\* the record being geocoded, or the last one geocoded
InBatch == program = "lotlan" /\ load_result.kind = "return" /\ i >= 1

\* geocode_single_location has ended for record k
Ended(k) == outcome[k] # "pending"

\* the answers to the requests of the current record, in order
Answers == SelectSeq(history, LAMBDA e : e.ev = "request")
AnswerKinds == [k \in 1..Len(Answers) |-> Answers[k].resp]

\* the coordinates object of record k
CoordinatesOf(k) == coords[pokemon_locations[k].coordinates]

Present(c) == c.lat # None /\ c.lng # None
Absent(c) == c.lat = None /\ c.lng = None

Numeric(m) == IsNumeric(m.lat) /\ IsNumeric(m.lon)

\* the case of C1: 429, 429, then 200 with a match that carries coordinates
TwiceLimitedThenFound ==
    /\ InBatch
    /\ Len(Answers) >= 3
    /\ AnswerKinds[1] = "429" /\ AnswerKinds[2] = "429"
    /\ AnswerKinds[3] = "200 match" /\ Numeric(Answers[3].first)

\* C1: a record answered 429, 429 and then 200 with a match ends geocoded
\* with the coordinates of the first match after exactly 3 requests, and
\* the sleeps taken are 2 s after request 1 and 4 s after request 2.
C1_TwiceLimitedThenFound ==
    TwiceLimitedThenFound =>
        /\ outcome[i] = "geocoded"
        /\ requests[i] = 3
        /\ CoordinatesOf(i) = [lat |-> Float(3978), lng |-> Float(-8965)]
        /\ history = << Request("429", <<>>), Sleep(2),
                        Request("429", <<>>), Sleep(4),
                        Request("200 match", <<Answers[3].first>>) >>

C1_Witness ==
    /\ TwiceLimitedThenFound
    /\ Answers[3].first = [lat |-> "39.78", lon |-> "-89.65"]
    /\ Len(results) = i

\* some request of the current record was answered 200 with zero matches
ZeroMatches == InBatch /\ \E k \in 1..Len(Answers) : AnswerKinds[k] = "200 empty"

\* C2 as stated: a record whose lookup returns zero matches ends with null
\* coordinates and with exactly one outbound request issued for it.
C2_ZeroMatchesOneRequest ==
    ZeroMatches => Absent(CoordinatesOf(i)) /\ requests[i] = 1

\* C2 amended: a record whose lookup returns zero matches ends at once with
\* null coordinates: the zero-match answer is the last event of the record,
\* no request or sleep follows it, and the record has exactly one request
\* when that answer is the answer to its first attempt.
C2_ZeroMatchesNoRetry ==
    ZeroMatches =>
        /\ outcome[i] = "no_results"
        /\ Absent(CoordinatesOf(i))
        /\ history[Len(history)].resp = "200 empty"
        /\ \A k \in 1..(Len(history) - 1) : history[k].resp # "200 empty"
        /\ requests[i] = Len(Answers)
        /\ (AnswerKinds[1] = "200 empty" => requests[i] = 1)
        /\ Len(results) = i

C2_Witness ==
    /\ ZeroMatches
    /\ AnswerKinds[1] = "200 empty"
    /\ file.data[i].coordinates = StoredCoordinates
    /\ pc = "done"

\* the case of C3: requests.get raised on each of the 3 attempts
ThreeTransportErrors ==
    /\ InBatch
    /\ AnswerKinds = <<"RequestException", "RequestException", "RequestException">>

\* C3: a record whose 3 attempts all raise a transport error ends failed
\* with null coordinates, whatever it held before, and the error stays
\* inside geocode_single_location: the record is returned and appended.
C3_TransportErrorsExhausted ==
    ThreeTransportErrors =>
        /\ outcome[i] = "failed"
        /\ CoordinatesOf(i) = [lat |-> None, lng |-> None]
        /\ Len(results) = i /\ results[i] = location_json
        /\ console # "Error"
        /\ pc \in {"delay", "returned", "summary", "done"}

C3_Witness ==
    /\ ThreeTransportErrors
    /\ file.data[i].coordinates = StoredCoordinates
    /\ i < total

\* the call of add_coordinates_nominatim is over: it returned or raised
CallOver == program = "lotlan" /\ load_result.kind = "return"
            /\ pc \in {"returned", "summary", "done"}

SameFields(a, b) ==
    a.name = b.name /\ a.machine_id = b.machine_id /\ a.address = b.address

\* the run was ended by the library raising on a body that is not JSON
EndedByInvalidBody ==
    /\ Len(Answers) >= 1
    /\ AnswerKinds[Len(Answers)] = "200 invalid json"
    /\ outcome[i] = "raised"

\* C4: for every input list and every sequence of answers of the service,
\* add_coordinates_nominatim returns a list as long as the input whose k-th
\* record carries the name, machine_id and address of the k-th input record.
C4_SameLengthSameOrder ==
    (CallOver /\ ~EndedByInvalidBody) =>
        /\ \A k \in 1..total : Ended(k) /\ outcome[k] # "raised"
        /\ Len(results) = Len(file.data)
        /\ \A k \in 1..Len(results) : SameFields(results[k], file.data[k])

\* what holds of C4 on the code: the list built so far carries the fields
\* of the input records in input order, and a call that returns has built
\* all of it
ReturnedListMatchesInput ==
    (program = "lotlan" /\ load_result.kind = "return") =>
        /\ Len(results) <= Len(file.data)
        /\ \A k \in 1..Len(results) : SameFields(results[k], file.data[k])
        /\ pc \in {"returned", "summary"} => Len(results) = Len(file.data)

\* C5: whatever the service answers for a record (zero matches, 429s,
\* transport errors, other statuses, a first match whose lat or lon is
\* missing or not a number), the batch goes on: once the run is over every
\* record has had at least one request and the call has returned normally.
C5_BatchNeverAborts ==
    (CallOver /\ pc = "done" /\ total >= 2 /\ ~EndedByInvalidBody) =>
        /\ \A k \in 1..total : requests[k] >= 1
        /\ console = "Geocoding Summary"

\* C6: in every reachable state the coordinates of every record are both
\* present or both absent.
C6_BothOrNeither ==
    /\ \A k \in DOMAIN coords : (coords[k].lat = None) <=> (coords[k].lng = None)
    /\ \A k \in 1..Len(scrape_result.value) :
         (scrape_result.value[k].coordinates.lat = None)
             <=> (scrape_result.value[k].coordinates.lng = None)

\* C7 as stated: the geocoder never changes an address, and never clears
\* or replaces coordinates that are present.
C7_PresentNeverOverwritten ==
    [][ \A k \in DOMAIN coords :
          /\ pokemon_locations'[k].address = pokemon_locations[k].address
          /\ (Present(coords[k]) => coords'[k] = coords[k]) ]_vars

\* the coordinates record k had in the file
Loaded(k) == file.data[k].coordinates

\* C7 amended: the geocoder never changes an address (input and returned
\* records carry the address of the file), and for a record that enters
\* with absent coordinates a coordinate once set is never cleared or
\* replaced.  A record that enters with coordinates is geocoded like any
\* other: it ends with the coordinates of the match found, or with null
\* coordinates when the lookup fails.
C7_SetOnceUnlessLoaded ==
    /\ [][ \A k \in DOMAIN coords :
             /\ pokemon_locations'[k].address = pokemon_locations[k].address
             /\ Absent(Loaded(k)) =>
                  /\ (coords[k].lat # None => coords'[k].lat = coords[k].lat)
                  /\ (coords[k].lng # None => coords'[k].lng = coords[k].lng) ]_vars
    /\ [](\A k \in DOMAIN coords :
             /\ pokemon_locations[k].address = file.data[k].address
             /\ (k <= Len(results) => results[k].address = file.data[k].address)
             /\ (outcome[k] \in {"no_results", "failed"} => Absent(coords[k]))
             /\ (outcome[k] = "geocoded" =>
                   coords[k] = [lat |-> Float(3978), lng |-> Float(-8965)]))

C7_Witness ==
    /\ InBatch /\ pc = "done" /\ total >= 2
    /\ Absent(Loaded(1)) /\ outcome[1] = "geocoded" /\ Present(coords[1])
    /\ Present(Loaded(2)) /\ outcome[2] = "failed" /\ Absent(coords[2])

----------------------------------------------------------------------------
(* Properties of loading and of the extractor *)

\* what the caller of a load operation gets: the value returned or the
\* exception raised, not what the operation printed
Received(r) == [kind |-> r.kind, exc |-> r.exc, none |-> r.none, value |-> r.value]

\* the load operation of the program that runs
Load(f) == IF program = "lotlan" THEN load_from_file(f) ELSE load_existing_data(f)

HasLoaded == program \in {"lotlan", "scrape_main"} /\ load_result.kind # "none"

MissingFile == [kind |-> "missing", data |-> <<>>]

\* C8 as stated: after a load that failed for another reason than a missing
\* file, what the caller received differs from what it receives for a
\* missing file, for load_from_file and for load_existing_data.
C8_MissingFileDistinct ==
    (HasLoaded /\ file.kind = "invalid") =>
        Received(load_result) # Received(Load(MissingFile))

\* C8 amended: load_from_file raises FileNotFoundError for a missing file
\* and another error for a file that does not parse, and __main__ of
\* lotlan.py reports the two differently; load_existing_data returns None
\* for a missing file and for every other load failure alike, the two
\* differ only in the message it prints, and its caller reports
\* "Failed to load data" for both.
C8_DistinctOnlyWhenRaised ==
    HasLoaded =>
        /\ program = "lotlan" =>
             /\ (file.kind = "missing") <=>
                  (load_result.kind = "raise" /\ load_result.exc = "FileNotFoundError")
             /\ (file.kind = "invalid") <=>
                  (load_result.kind = "raise" /\ load_result.exc # "FileNotFoundError")
             /\ (file.kind = "missing") <=> (console = "Error: Could not find")
             /\ file.kind = "invalid" => console = "Error"
        /\ program = "scrape_main" =>
             /\ load_result.kind = "return"
             /\ (file.kind \in {"missing", "invalid"}) <=> load_result.none
             /\ load_result.none =>
                  /\ Received(load_result) = Received(load_existing_data(MissingFile))
                  /\ console = "Failed to load data"
             /\ (file.kind = "missing") <=> (load_result.printed = "file not found")

C8_Witness ==
    /\ program = "scrape_main" /\ file.kind = "invalid"
    /\ load_result.kind = "return" /\ load_result.none
    /\ load_result.printed = "Error loading"

Scraped == program = "scrape" /\ pc = "done"

\* C9 as stated: when parsing the markup raises, the extractor returns a
\* sequence of zero records.
C9_EmptySequenceOnError ==
    (Scraped /\ html_content.kind = "raises") =>
        ~scrape_result.none /\ scrape_result.value = <<>>

\* C9 amended: when parsing the markup raises, the extractor catches the
\* error and returns None, which is no sequence; it returns a sequence in
\* every other case.
C9_NoneOnError ==
    Scraped => (scrape_result.none <=> html_content.kind = "raises")

C9_Witness == Scraped /\ html_content.kind = "raises" /\ scrape_result = NoneResult

\* the td cells of a row, by position
TdPositions(row) == { j \in 1..Len(row) : row[j].tag = "td" }
NthOf(S, n) == CHOOSE x \in S : Cardinality({ y \in S : y <= x }) = n
TdCell(row, n) == row[NthOf(TdPositions(row), n)]

\* the rows from row `from` on that have at least 4 td cells
RowsWithRecord(rows, from) ==
    { k \in from..Len(rows) : Cardinality(TdPositions(rows[k])) >= 4 }

\* the result is the list of the records of the rows from `from` on: one
\* per row with at least 4 td cells, in row order, with the address made of
\* (stripped) cell 2, ", " and cell 3 and with absent coordinates
RecordsOfRows(from) ==
    LET rows == html_content.rows
        R == RowsWithRecord(rows, from)
        out == scrape_result.value
    IN  /\ ~scrape_result.none
        /\ Len(out) = Cardinality(R)
        /\ \A n \in 1..Len(out) :
             LET row == rows[NthOf(R, n)] IN
             /\ out[n].name = strip(TdCell(row, 1).text)
             /\ out[n].machine_id = strip(TdCell(row, 2).text)
             /\ out[n].address =
                  strip(TdCell(row, 3).text) \o <<",", " ">> \o strip(TdCell(row, 4).text)
             /\ out[n].coordinates = [lat |-> None, lng |-> None]

IsHeaderRow(row) == row[1].text = <<"R", "e", "t", "a", "i", "l", "e", "r">>

\* a table made of a 2-row header followed by data rows
TwoRowHeader ==
    /\ html_content.kind = "table"
    /\ Len(html_content.rows) >= 2
    /\ \A k \in 1..Len(html_content.rows) : IsHeaderRow(html_content.rows[k]) <=> k <= 2

\* C10 as stated: a table of a 2-row header and N data rows yields the
\* records of the data rows only: exactly one per data row with at least 4
\* cells, in row order.
C10_TwoRowHeaderSkipped ==
    (Scraped /\ TwoRowHeader) => RecordsOfRows(3)

\* C10 amended: the extractor skips the first row of the table only: every
\* later row with at least 4 td cells yields one record, in row order, with
\* address = cell 2 + ", " + cell 3 (stripped texts) and absent coordinates,
\* and rows with fewer than 4 td cells yield none.  A table of a 1-row
\* header and N data rows yields N records; the second row of a 2-row
\* header yields a record of its own when it has at least 4 td cells.
C10_FirstRowSkipped ==
    (Scraped /\ html_content.kind = "table") => RecordsOfRows(2)

C10_Witness ==
    /\ Scraped /\ TwoRowHeader
    /\ Len(html_content.rows) = 3
    /\ html_content.rows[2][1].tag = "td"
    /\ Len(scrape_result.value) = 2
    /\ scrape_result.value[2].address =
         <<"1", " ", "M", "a", "i", "n", " ", "S", "t", ",", " ",
           "S", "p", "r", "i", "n", "g", "f", "i", "e", "l", "d", ",", " ", "I", "L">>

----------------------------------------------------------------------------
(* Properties of the retry loop *)

\* the attempt (0, 1, 2) that issued the request at position j of history
AttemptOf(j) == Cardinality({ m \in 1..j : history[m].ev = "request" }) - 1

\* after the event at position j the loop is about to issue the request of
\* attempt a, or has already issued it
NextRequestFollows(j, a) ==
    IF j = Len(history)
    THEN pc = "geocode" /\ attempt = a /\ outcome[i] = "pending"
    ELSE history[j + 1].ev = "request"

\* the record ended at lines 71-75 right after the event at position j
FailedAfter(j) ==
    /\ j = Len(history)
    /\ outcome[i] = "failed"
    /\ CoordinatesOf(i) = [lat |-> None, lng |-> None]

\* C11: a 429 on attempt a is followed by a sleep of 2 * (a + 1) seconds,
\* and then by the next request when a < 2; three 429s end the record failed
\* with null coordinates after exactly 3 requests.
C11_RateLimitBackoff ==
    InBatch =>
        /\ \A j \in 1..Len(history) :
             history[j].resp = "429" =>
                LET a == AttemptOf(j) IN
                /\ j < Len(history)
                /\ history[j + 1] = Sleep(2 * (a + 1))
                /\ IF a < 2 THEN NextRequestFollows(j + 1, a + 1) ELSE FailedAfter(j + 1)
        /\ AnswerKinds = <<"429", "429", "429">> =>
             /\ history = << Request("429", <<>>), Sleep(2), Request("429", <<>>), Sleep(4),
                             Request("429", <<>>), Sleep(6) >>
             /\ requests[i] = 3
             /\ FailedAfter(6)

C11_Witness ==
    /\ InBatch
    /\ AnswerKinds = <<"429", "429", "429">>
    /\ file.data[i].coordinates = StoredCoordinates
    /\ history[6].secs = 6
    /\ Len(results) = i

\* C12: a transport error is followed by a sleep of 2 seconds, whatever the
\* attempt, and by the next request while attempts remain; on the last
\* attempt it is followed by no sleep and the record ends failed.
C12_TransportErrorFixedSleep ==
    InBatch =>
        \A j \in 1..Len(history) :
           history[j].resp = "RequestException" =>
              LET a == AttemptOf(j) IN
              IF a < 2
              THEN /\ j < Len(history)
                   /\ history[j + 1] = Sleep(2)
                   /\ NextRequestFollows(j + 1, a + 1)
              ELSE FailedAfter(j)

C12_Witness ==
    /\ InBatch
    /\ Len(Answers) = 3
    /\ AnswerKinds[2] = "RequestException" /\ AnswerKinds[3] = "RequestException"
    /\ outcome[i] = "failed"

\* C13: another status than 200 and 429 is followed by no sleep: by the
\* next request when attempts remain, else by the failure with null
\* coordinates; three such statuses make exactly 3 requests and no sleep.
C13_OtherStatusNoSleep ==
    InBatch =>
        /\ \A j \in 1..Len(history) :
             history[j].resp = "HTTP error" =>
                LET a == AttemptOf(j) IN
                IF a < 2 THEN NextRequestFollows(j, a + 1) ELSE FailedAfter(j)
        /\ AnswerKinds = <<"HTTP error", "HTTP error", "HTTP error">> =>
             /\ history = << Request("HTTP error", <<>>), Request("HTTP error", <<>>),
                             Request("HTTP error", <<>>) >>
             /\ requests[i] = 3

C13_Witness ==
    /\ InBatch
    /\ AnswerKinds = <<"HTTP error", "HTTP error", "HTTP error">>
    /\ outcome[i] = "failed"
    /\ file.data[i].coordinates = StoredCoordinates

----------------------------------------------------------------------------
(* Properties of a record's end and of the batch *)

Loadedlotlan == program = "lotlan" /\ load_result.kind = "return"

RECURSIVE SumTo(_, _)
SumTo(f, n) == IF n = 0 THEN 0 ELSE f[n] + SumTo(f, n - 1)

\* C14: for every sequence of answers a record gets at least 1 and at most
\* 3 requests and then ends in exactly one of SUCCESS (line 49) and FAILURE
\* (lines 54, 75); a batch of n records issues at most 3n requests.
C14_BoundedAndTerminal ==
    (Loadedlotlan /\ ~(i >= 1 /\ EndedByInvalidBody)) =>
        /\ \A k \in 1..total :
             /\ requests[k] <= 3
             /\ Ended(k) =>
                  /\ requests[k] >= 1
                  /\ outcome[k] \in {"geocoded", "no_results", "failed"}
        /\ SumTo(requests, total) <= 3 * total

\* what holds of C14 on the code: the number of requests of a record is
\* the number of passes of its loop, at most 3, at least 1 once it has
\* ended, and a batch of n records issues at most 3n requests
RequestsBounded ==
    Loadedlotlan =>
        /\ \A k \in 1..total :
             /\ requests[k] \in 0..3
             /\ Ended(k) => requests[k] >= 1
             /\ (k = i /\ ~Ended(k)) => requests[k] = attempt
             /\ k > i => requests[k] = 0
        /\ SumTo(requests, total) <= 3 * total

\* C15: a record ends with present coordinates exactly when one of its
\* attempts was answered 200 with at least one match, the coordinates then
\* are the lat and lon of the first match; in every other case it ends
\* with both null.
C15_PresentIffMatch ==
    (InBatch /\ Ended(i) /\ ~EndedByInvalidBody) =>
        LET found == { k \in 1..Len(Answers) : AnswerKinds[k] = "200 match" } IN
        /\ Present(CoordinatesOf(i)) <=> found # {}
        /\ \A k \in found :
             /\ IsNumeric(Answers[k].first.lat) /\ IsNumeric(Answers[k].first.lon)
             /\ CoordinatesOf(i) = [lat |-> float(Answers[k].first.lat),
                                    lng |-> float(Answers[k].first.lon)]
        /\ found = {} => Absent(CoordinatesOf(i))

\* what holds of C15 on the code: a record that geocode_single_location
\* returns has the coordinates of the first match of its last answer when
\* that answer is a 200 with a match, and null coordinates in every other
\* case
ReturnedCoordinatesMatchAnswer ==
    (InBatch /\ outcome[i] \in {"geocoded", "no_results", "failed"}) =>
        LET last == Answers[Len(Answers)] IN
        /\ outcome[i] = "geocoded" <=> last.resp = "200 match"
        /\ \A k \in 1..(Len(Answers) - 1) : AnswerKinds[k] # "200 match"
        /\ IF last.resp = "200 match"
           THEN /\ last.first = [lat |-> "39.78", lon |-> "-89.65"]
                /\ CoordinatesOf(i) = [lat |-> Float(3978), lng |-> Float(-8965)]
           ELSE CoordinatesOf(i) = [lat |-> None, lng |-> None]

\* C16: the inter-record delays are of `delay` = 1 second; one is taken
\* after each record but the last has ended and before the first request of
\* the next record, so a batch of n records that returns has taken exactly
\* n - 1; they are taken whatever the record slept in its retry loop.
C16_InterRecordDelays ==
    InBatch =>
        /\ \A d \in 1..Len(delays) : delays[d] = 1
        /\ Len(delays) = i - 1
        /\ Len(delays) <= total - 1
        /\ pc \in {"returned", "summary"} => Len(delays) = total - 1
        /\ (pc = "done" /\ console = "Geocoding Summary") => Len(delays) = total - 1
        /\ pc = "delay" => Ended(i) /\ i < total /\ Len(results) = i /\ requests[i + 1] = 0
        /\ \A k \in 2..total :
             requests[k] >= 1 => Len(delays) >= k - 1 /\ Ended(k - 1)
        /\ \A k \in 1..total :
             (Ended(k) /\ outcome[k] # "raised" /\ k < total /\ pc # "delay") =>
                 Len(delays) >= k

C16_Witness ==
    /\ InBatch /\ total = 2 /\ pc = "returned"
    /\ delays = <<1>>
    /\ requests[1] = 3 /\ outcome[1] = "geocoded"
    /\ \E j \in 1..Len(history) : history[j].ev = "sleep"

\* C17: records are geocoded one at a time, each at most once and in input
\* order (each exactly once when the call returns); the output file is
\* written only after every record has ended, and a run that aborts in the
\* middle of the batch has written no file.
C17_SequentialSaveAtEnd ==
    /\ [](Loadedlotlan =>
            /\ \A k \in 1..total :
                 /\ Ended(k) => \A j \in 1..(k - 1) : Ended(j) /\ outcome[j] # "raised"
                 /\ k # i => (requests[k] = 0 <=> ~Ended(k))
            /\ Len(results) = Cardinality({ k \in 1..total : Ended(k) /\ outcome[k] # "raised" })
            /\ output_file.written =>
                 /\ \A k \in 1..total : Ended(k) /\ outcome[k] # "raised"
                 /\ Len(results) = total
                 /\ output_file.data = dump(results)
                 /\ pc \in {"summary", "done"}
            /\ (\E k \in 1..total : outcome[k] \in {"pending", "raised"}) =>
                 ~output_file.written)
    /\ [][ Loadedlotlan =>
             /\ i' \in {i, i + 1}
             /\ \A k \in 1..total :
                  Ended(k) => requests'[k] = requests[k] /\ outcome'[k] = outcome[k]
             /\ output_file.written => output_file' = output_file ]_vars
    /\ [](~Loadedlotlan => ~output_file.written)

C17_Witness ==
    /\ Loadedlotlan /\ total = 2 /\ pc = "done"
    /\ outcome = <<"geocoded", "raised">>
    /\ Len(results) = 1
    /\ ~output_file.written

\* C18 as stated: a 200 response is always the last request of its record.
C18_NothingAfter200 ==
    InBatch =>
        \A k \in 1..Len(Answers) :
           AnswerKinds[k] \in {"200 match", "200 empty", "200 invalid json"} =>
              k = Len(Answers) /\ pc # "geocode"

\* C18 amended: a 200 response whose body parses as JSON (with or without
\* matches) is always the last request of its record, so a 200 with zero
\* matches after earlier failed attempts ends the record failed without
\* using the attempts that remain.  A 200 whose body is not JSON is not:
\* where the library raises it as a RequestException the record is retried.
C18_NothingAfterParsed200 ==
    InBatch =>
        \A k \in 1..Len(Answers) :
           AnswerKinds[k] \in {"200 match", "200 empty"} =>
              /\ k = Len(Answers)
              /\ history[Len(history)] = Answers[k]
              /\ requests[i] = k
              /\ Ended(i) /\ pc # "geocode"
              /\ AnswerKinds[k] = "200 empty" =>
                   outcome[i] = "no_results" /\ Absent(CoordinatesOf(i))

C18_Witness ==
    /\ InBatch
    /\ AnswerKinds = <<"RequestException", "200 empty">>
    /\ requests[i] = 2 /\ outcome[i] = "no_results"
    /\ pc = "done"

\* C19: the returned records are new objects with the name, machine_id and
\* address of the input records, which keep theirs; the nested coordinates
\* object is the same, so the coordinates of input record k are those of
\* output record k and geocoding changes the caller's input.
C19_ShallowCopy ==
    Loadedlotlan =>
        /\ \A k \in 1..total :
             /\ pokemon_locations[k].obj = <<"loaded", k>>
             /\ SameFields(pokemon_locations[k], file.data[k])
        /\ \A k \in 1..Len(results) :
             /\ \A j \in 1..total : results[k].obj # pokemon_locations[j].obj
             /\ SameFields(results[k], pokemon_locations[k])
             /\ results[k].coordinates = pokemon_locations[k].coordinates
             /\ coords[results[k].coordinates] = CoordinatesOf(k)
        /\ pc = "geocode" =>
             /\ location_json.obj # pokemon_locations[i].obj
             /\ location_json.coordinates = pokemon_locations[i].coordinates

C19_Witness ==
    /\ Loadedlotlan /\ pc = "returned" /\ total = 2
    /\ outcome = <<"failed", "geocoded">>
    /\ Present(Loaded(1)) /\ Absent(CoordinatesOf(1))
    /\ Absent(Loaded(2)) /\ Present(CoordinatesOf(2))
    /\ results[2].obj = <<"copy", 2>>

====
